---------------------------- MODULE Spec2Model ----------------------------
(***************************************************************************)
(* Model of protonup-cachyos (src/src/main.rs): the install decision       *)
(* pipeline of main(), with the filesystem (the two candidate install      *)
(* roots and the scratch directory), the release feed, the asset archive   *)
(* and the CPU feature report as the environment.                          *)
(***************************************************************************)
EXTENDS Naturals, Sequences, FiniteSets, TLC

VARIABLES
    pc,          \* position of the current run inside main()
    runs,        \* number of runs started so far
    euid,        \* effective user id of the current run
    homeSet,     \* whether HOME is set for the current run
    cand,        \* kind of each candidate root path: "absent", "file" or "dir"
    rootfs,      \* entries of each candidate root: name -> content label
    tmp,         \* the scratch directory: [exists, ent: name -> content label]
    cpuinfo,     \* what reading /proc/cpuinfo gives: [ok, lines]
    arch,        \* result of detect_arch()
    assets,      \* release.assets: the download urls in feed order
    url,         \* the selected asset url, or NoUrl
    install_dir, \* index of the chosen candidate root (0: not chosen yet)
    install_name,\* the derived install name ("" before it is derived)
    data,        \* the downloaded archive: its top-level entries in stream order
    extracted,   \* the entry of the scratch directory picked by the lookup
    exitCode,    \* process exit status (NoExit while running)
    trace,       \* stages executed by the current run, with their result
    fs0,         \* cand and rootfs as they were when the current run started
    prev         \* summary of the previous run

vars ==
    <<pc, runs, euid, homeSet, cand, rootfs, tmp, cpuinfo, arch, assets, url,
      install_dir, install_name, data, extracted, exitCode, trace, fs0, prev>>

(***************************************************************************)
(* Strings.  TLC treats a string as a sequence of characters under Len,    *)
(* SubSeq and \o, so the std::str methods used by the program are defined  *)
(* character by character.                                                 *)
(***************************************************************************)
ends_with(s, suf) ==
    /\ Len(s) >= Len(suf)
    /\ SubSeq(s, Len(s) - Len(suf) + 1, Len(s)) = suf

starts_with(s, pre) ==
    /\ Len(s) >= Len(pre)
    /\ SubSeq(s, 1, Len(pre)) = pre

contains(s, sub) ==
    \E i \in 1..(Len(s) + 1) :
        /\ i + Len(sub) - 1 <= Len(s)
        /\ SubSeq(s, i, i + Len(sub) - 1) = sub

\* positions of the one-character separator sep in s
SepPositions(s, sep) ==
    {i \in 1..Len(s) : SubSeq(s, i, i) = sep}

SetMax(S) ==
    CHOOSE m \in S : \A n \in S : n <= m

\* s.split(sep).last(): the text after the last separator (all of s if none)
split_last(s, sep) ==
    IF SepPositions(s, sep) = {}
    THEN s
    ELSE SubSeq(s, SetMax(SepPositions(s, sep)) + 1, Len(s))

\* s.strip_suffix(suf): Some(rest) as <<rest>>, None as << >>
strip_suffix(s, suf) ==
    IF ends_with(s, suf)
    THEN <<SubSeq(s, 1, Len(s) - Len(suf))>>
    ELSE << >>

(***************************************************************************)
(* detect_arch (main.rs 48-60)                                             *)
(***************************************************************************)
ArchBase ==
    "x86_64"

ArchV3 ==
    "x86_64_v3"

\* the closure of map_or: the four substring tests on the flags line
flags_line_is_v3(f) ==
    /\ contains(f, "avx2")
    /\ contains(f, "bmi1")
    /\ contains(f, "bmi2")
    /\ contains(f, "fma")

\* flags.lines().find(|l| l.starts_with("flags")): index of the first such line, 0 if none
find_flags_line(lines) ==
    IF \E i \in 1..Len(lines) : starts_with(lines[i], "flags")
    THEN CHOOSE i \in 1..Len(lines) :
            /\ starts_with(lines[i], "flags")
            /\ \A j \in 1..(i - 1) : ~starts_with(lines[j], "flags")
    ELSE 0

detect_arch(report) ==
    IF /\ report.ok
       /\ find_flags_line(report.lines) # 0
       /\ flags_line_is_v3(report.lines[find_flags_line(report.lines)])
    THEN ArchV3
    ELSE ArchBase

(***************************************************************************)
(* asset selection and install name (main.rs 86-94)                        *)
(***************************************************************************)
NoUrl ==
    "<none>"

TarXz ==
    ".tar.xz"

\* the tag is looked for anywhere in the url instead of at its end
asset_matches_anywhere(u, a) ==
    contains(u, a)

asset_matches(u, a) ==
    ends_with(u, a \o TarXz)

\* release.assets.iter().find(..): the first matching url, NoUrl when find gives None
find_asset(as, a) ==
    IF \E i \in 1..Len(as) : asset_matches(as[i], a)
    THEN as[CHOOSE i \in 1..Len(as) :
                /\ asset_matches(as[i], a)
                /\ \A j \in 1..(i - 1) : ~asset_matches(as[j], a)]
    ELSE NoUrl

\* url.split('/').last().unwrap().strip_suffix(".tar.xz").unwrap()
derive_install_name(u) ==
    strip_suffix(split_last(u, "/"), TarXz)[1]


(***************************************************************************)
(* The environment: bounded sets the inputs are drawn from.                *)
(***************************************************************************)
MaxRuns == 2

\* the uid geteuid() is compared with (main.rs 63)
RootUid == 0

\* effective uids a run can have
Uids ==
    {RootUid, 1000}

\* paths[0] and paths[1] (main.rs 69-72), by index
Cands ==
    1..2

\* what /proc/cpuinfo can give a run of the pipeline
MainReports ==
    { [ok |-> FALSE, lines |-> << >>],
      [ok |-> TRUE, lines |-> <<"processor : 0", "flags : fpu avx2 bmi1 bmi2 fma">>] }

U1 ==
    "https://h/proton-cachyos-1-x86_64.tar.xz"

U1v3 ==
    "https://h/proton-cachyos-1-x86_64_v3.tar.xz"

U2v3 ==
    "https://h/proton-cachyos-2-x86_64_v3.tar.xz"

\* release.assets of the feeds a run can be answered with
MainFeeds ==
    { <<U1, U1v3>>, <<U2v3>> }

\* names an entry of an install root can have
RootNames ==
    { "proton-cachyos-1-x86_64", "proton-cachyos-1-x86_64_v3",
      "proton-cachyos-2-x86_64_v3", "proton-cachyos-0", "proton-ge",
      "other-thing", "proton-cachyos-notes" }

\* content labels of an entry:
\*   "none"       no such entry
\*   "file"       a regular file
\*   "dir"        a directory whose content the model does not follow
\*   "payload"    a directory holding all of one archive directory, unpacked into an
\*                empty place
\*   "partial"    a directory holding part of an archive directory
\*   "oldpayload" a "payload" left in the scratch directory by an earlier run
\*   "oldpartial" a "partial" left in the scratch directory by an earlier run
\*   "mixed"      archive content unpacked over content of an earlier or another run
DirLabels ==
    {"dir", "payload", "partial", "oldpayload", "oldpartial", "mixed"}

EmptyRoot ==
    [n \in RootNames |-> "none"]

\* what an install root can hold before the first run
InitRoots ==
    { EmptyRoot,
      [n \in RootNames |->
          IF n \in {"proton-cachyos-0", "other-thing"} THEN "dir"
          ELSE IF n = "proton-cachyos-notes" THEN "file" ELSE "none"],
      [n \in RootNames |->
          IF n \in {"proton-cachyos-1-x86_64_v3", "proton-ge"} THEN "dir" ELSE "none"] }

\* top-level names an archive or the scratch directory can hold
TmpNames ==
    { "proton-cachyos-1", "proton-cachyos-2", "docs" }

EmptyTmp ==
    [n \in TmpNames |-> "none"]

NoData ==
    << >>

\* the archives an asset download can give: the top-level entries, in stream order
Archives ==
    { << [name |-> "proton-cachyos-1", kind |-> "dir"] >>,
      << [name |-> "proton-cachyos-1", kind |-> "dir"],
         [name |-> "proton-cachyos-2", kind |-> "dir"] >>,
      << [name |-> "docs", kind |-> "dir"] >> }

NoPrev ==
    [installed |-> FALSE, assets |-> << >>, arch |-> ArchBase, dir |-> 0, name |-> ""]

(***************************************************************************)
(* Filesystem primitives as the program uses them.                         *)
(***************************************************************************)
\* Path::exists()
exists(label) ==
    label # "none"

\* Path::is_dir()
is_dir(label) ==
    label \in DirLabels

\* the scan is dropped: paths[0] whatever exists
resolve_install_dir_first(cs) ==
    1

\* paths.iter().find(|p| exists).unwrap_or(&paths[0])  (main.rs 74-76)
resolve_install_dir(cs) ==
    IF \E i \in Cands : cs[i] # "absent"
    THEN CHOOSE i \in Cands : cs[i] # "absent" /\ \A j \in 1..(i - 1) : cs[j] = "absent"
    ELSE 1

\* the skip test is lost: every run installs
already_installed_never(root, name) ==
    FALSE

\* install_path.exists()  (main.rs 96)
already_installed(root, name) ==
    exists(root[name])

\* the name test is lost: any directory is taken for the payload
is_payload_dir_anydir(name, label) ==
    is_dir(label)

\* the test of the lookup closure (main.rs 121)
is_payload_dir(name, label) ==
    is_dir(label) /\ starts_with(name, "proton-")

\* the prune loop with the shorter prefix of the lookup
is_superseded_short_prefix(name, label, keep) ==
    name # keep /\ is_dir(label) /\ starts_with(name, "proton-")

\* the prune loop without `p != install_path`
is_superseded_no_keep(name, label, keep) ==
    is_dir(label) /\ starts_with(name, "proton-cachyos-")

\* the test of the prune loop (main.rs 129-131)
is_superseded(name, label, keep) ==
    name # keep /\ is_dir(label) /\ starts_with(name, "proton-cachyos-")

\* what unpacking an archive entry of kind k leaves where label l was
unpack_over(l, k) ==
    IF k = "file" THEN "file"
    ELSE IF l = "none" THEN "payload" ELSE "mixed"

\* the same when the extraction stops inside the entry
unpack_part(l, k) ==
    IF k = "file" THEN "file" ELSE "partial"

\* what a remove_dir_all that fails can leave of an entry
rm_leftovers(l) ==
    IF l = "oldpayload" THEN {l, "none", "oldpartial"} ELSE {l, "none"}

\* a scratch entry seen by the next run
aged(l) ==
    IF l \in {"payload", "mixed"} THEN "oldpayload"
    ELSE IF l = "partial" THEN "oldpartial" ELSE l


(***************************************************************************)
(* main (main.rs 62-142), one action per stage.                            *)
(***************************************************************************)
\* k times the stage record x
Times(x, k) ==
    [i \in 1..k |-> x]

Ran(stage, result) ==
    trace' = Append(trace, <<stage, result>>)

\* a stage that fails is tried once more before its error ends the run
Fail_retry_once(stage) ==
    /\ Ran(stage, "err")
    /\ IF \E i \in 1..Len(trace) : trace[i] = <<stage, "err">>
       THEN pc' = "exit" /\ exitCode' = <<1>>
       ELSE pc' = pc /\ exitCode' = exitCode

\* a stage returns Err through `?`: main returns it and the process exits with 1
Fail(stage) ==
    /\ pc' = "exit"
    /\ exitCode' = <<1>>
    /\ Ran(stage, "err")

Go(stage, next) ==
    /\ pc' = next
    /\ exitCode' = exitCode
    /\ Ran(stage, "ok")

\* the gate compares with the wrong sense: root is let through
is_root_nogate(uid) ==
    FALSE

is_root(uid) ==
    uid = RootUid

\* main.rs 63-66
CheckRoot ==
    /\ pc = "start"
    /\ IF is_root(euid)
       THEN /\ pc' = "exit"
            /\ exitCode' = <<1>>
       ELSE /\ pc' = "home"
            /\ exitCode' = exitCode
    /\ UNCHANGED <<runs, euid, homeSet, cand, rootfs, tmp, cpuinfo, arch, assets, url,
                   install_dir, install_name, data, extracted, trace, fs0, prev>>

\* main.rs 68: env::var("HOME")?
GetHome ==
    /\ pc = "home"
    /\ IF homeSet THEN Go("home", "resolve") ELSE Fail("home")
    /\ UNCHANGED <<runs, euid, homeSet, cand, rootfs, tmp, cpuinfo, arch, assets, url,
                   install_dir, install_name, data, extracted, fs0, prev>>

\* main.rs 74-76
ResolveRoot ==
    /\ pc = "resolve"
    /\ install_dir' = resolve_install_dir(cand)
    /\ Go("exists", "mkroot")
    /\ UNCHANGED <<runs, euid, homeSet, cand, rootfs, tmp, cpuinfo, arch, assets, url,
                   install_name, data, extracted, fs0, prev>>

\* main.rs 78: fs::create_dir_all(install_dir)?
MkRoot ==
    /\ pc = "mkroot"
    /\ \/ /\ cand[install_dir] = "dir"
          /\ Go("mkroot", "detect")
          /\ cand' = cand
       \/ /\ cand[install_dir] = "absent"
          /\ Go("mkroot", "detect")
          /\ cand' = [cand EXCEPT ![install_dir] = "dir"]
       \/ /\ cand[install_dir] # "dir"
          /\ Fail("mkroot")
          /\ cand' = cand
    /\ UNCHANGED <<runs, euid, homeSet, rootfs, tmp, cpuinfo, arch, assets, url,
                   install_dir, install_name, data, extracted, fs0, prev>>

\* main.rs 80: detect_arch()
Detect ==
    /\ pc = "detect"
    /\ \E r \in MainReports :
          /\ cpuinfo' = r
          /\ arch' = detect_arch(r)
    /\ Go("detect", "fetch")
    /\ UNCHANGED <<runs, euid, homeSet, cand, rootfs, tmp, assets, url,
                   install_dir, install_name, data, extracted, fs0, prev>>

\* main.rs 83-85: the metadata download and serde_json::from_slice
FetchRelease ==
    /\ pc = "fetch"
    /\ \/ /\ Fail("fetch")
          /\ assets' = assets
       \/ /\ pc' = "exit"
          /\ exitCode' = <<1>>
          /\ trace' = trace \o << <<"fetch", "ok">>, <<"parse", "err">> >>
          /\ assets' = assets
       \/ /\ \E f \in MainFeeds : assets' = f
          /\ pc' = "select"
          /\ exitCode' = exitCode
          /\ trace' = trace \o << <<"fetch", "ok">>, <<"parse", "ok">> >>
    /\ UNCHANGED <<runs, euid, homeSet, cand, rootfs, tmp, cpuinfo, arch, url,
                   install_dir, install_name, data, extracted, fs0, prev>>

\* main.rs 86-90
SelectAsset ==
    /\ pc = "select"
    /\ url' = find_asset(assets, arch)
    /\ IF find_asset(assets, arch) = NoUrl THEN Fail("select") ELSE Go("select", "check")
    /\ UNCHANGED <<runs, euid, homeSet, cand, rootfs, tmp, cpuinfo, arch, assets,
                   install_dir, install_name, data, extracted, fs0, prev>>

\* main.rs 93-99
CheckInstalled ==
    /\ pc = "check"
    /\ install_name' = derive_install_name(url)
    /\ IF already_installed(rootfs[install_dir], derive_install_name(url))
       THEN /\ pc' = "exit"
            /\ exitCode' = <<0>>
            /\ Ran("check", "skip")
       ELSE Go("check", "download")
    /\ UNCHANGED <<runs, euid, homeSet, cand, rootfs, tmp, cpuinfo, arch, assets, url,
                   install_dir, data, extracted, fs0, prev>>

\* main.rs 108: download(&url, None)?
Download ==
    /\ pc = "download"
    /\ \/ /\ Fail("download")
          /\ data' = data
       \/ /\ \E a \in Archives : data' = a
          /\ Go("download", "rmtmp")
    /\ UNCHANGED <<runs, euid, homeSet, cand, rootfs, tmp, cpuinfo, arch, assets, url,
                   install_dir, install_name, extracted, fs0, prev>>

\* main.rs 112: let _ = fs::remove_dir_all(&tmp_dir)
RemoveTmp ==
    /\ pc = "rmtmp"
    /\ pc' = "mktmp"
    /\ exitCode' = exitCode
    /\ \/ /\ ~tmp.exists
          /\ tmp' = tmp
          /\ Ran("rmtmp", "absent")
       \/ /\ tmp.exists
          /\ tmp' = [exists |-> FALSE, ent |-> EmptyTmp]
          /\ Ran("rmtmp", "ok")
       \/ /\ tmp.exists
          /\ \E e \in [TmpNames -> DirLabels \cup {"none", "file"}] :
                /\ \A n \in TmpNames : e[n] \in rm_leftovers(tmp.ent[n])
                /\ tmp' = [exists |-> TRUE, ent |-> e]
          /\ Ran("rmtmp", "err")
    /\ UNCHANGED <<runs, euid, homeSet, cand, rootfs, cpuinfo, arch, assets, url,
                   install_dir, install_name, data, extracted, fs0, prev>>

\* main.rs 113: fs::create_dir_all(&tmp_dir)?
MakeTmp ==
    /\ pc = "mktmp"
    /\ \/ /\ tmp' = [tmp EXCEPT !.exists = TRUE]
          /\ Go("mktmp", "unpack")
       \/ /\ ~tmp.exists
          /\ tmp' = tmp
          /\ Fail("mktmp")
    /\ UNCHANGED <<runs, euid, homeSet, cand, rootfs, cpuinfo, arch, assets, url,
                   install_dir, install_name, data, extracted, fs0, prev>>

\* the scratch entries after the first k entries of archive a are unpacked whole
\* and, when part is set, entry k + 1 in part
unpacked(ent, a, k, part) ==
    [n \in TmpNames |->
        IF \E i \in 1..k : a[i].name = n
        THEN unpack_over(ent[n], (CHOOSE e \in {a[i] : i \in 1..k} : e.name = n).kind)
        ELSE IF part /\ k < Len(a) /\ a[k + 1].name = n
        THEN unpack_part(ent[n], a[k + 1].kind)
        ELSE ent[n]]

\* main.rs 114-116: archive.unpack(&tmp_dir)?
\* data is moved into the decoder; the entries are written in stream order and a
\* failure leaves those written so far
Unpack ==
    /\ pc = "unpack"
    /\ data' = NoData
    /\ \/ /\ tmp' = [tmp EXCEPT !.ent = unpacked(tmp.ent, data, Len(data), FALSE)]
          /\ Go("unpack", "lookup")
       \/ /\ \E k \in 0..Len(data) :
                tmp' = [tmp EXCEPT !.ent = unpacked(tmp.ent, data, k, TRUE)]
          /\ Fail("unpack")
       \/ /\ tmp' = tmp
          /\ Fail("unpack")
    /\ UNCHANGED <<runs, euid, homeSet, cand, rootfs, cpuinfo, arch, assets, url,
                   install_dir, install_name, extracted, fs0, prev>>

\* the entries of the scratch directory the lookup closure accepts
payload_dirs(t) ==
    {n \in TmpNames : is_payload_dir(n, t.ent[n])}

NoEntry ==
    ""

\* main.rs 118-123: read_dir(&tmp_dir)?.find_map(..).ok_or(..)?
\* read_dir gives the entries in no particular order, and an entry that cannot be
\* read is skipped by e.ok()?
Lookup ==
    /\ pc = "lookup"
    /\ \/ /\ Fail("readtmp")
          /\ extracted' = extracted
       \/ /\ \E n \in payload_dirs(tmp) : extracted' = n
          /\ Go("lookup", "rename")
       \/ /\ payload_dirs(tmp) = {}
          /\ extracted' = extracted
          /\ Fail("lookup")
       \/ /\ payload_dirs(tmp) # {}
          /\ extracted' = extracted
          /\ pc' = "exit"
          /\ exitCode' = <<1>>
          /\ Ran("lookup", "unreadable")
    /\ UNCHANGED <<runs, euid, homeSet, cand, rootfs, tmp, cpuinfo, arch, assets, url,
                   install_dir, install_name, data, fs0, prev>>

\* the move without its `?`: a move that fails is dropped and the run goes on to prune
Rename_unchecked ==
    /\ pc = "rename"
    /\ \/ /\ rootfs' = [rootfs EXCEPT ![install_dir][install_name] = tmp.ent[extracted]]
          /\ tmp' = [tmp EXCEPT !.ent[extracted] = "none"]
          /\ Go("rename", "listdir")
       \/ /\ rootfs' = rootfs
          /\ tmp' = tmp
          /\ pc' = "listdir"
          /\ exitCode' = exitCode
          /\ Ran("rename", "err")
    /\ UNCHANGED <<runs, euid, homeSet, cand, cpuinfo, arch, assets, url,
                   install_dir, install_name, data, extracted, fs0, prev>>

\* main.rs 125: fs::rename(&extracted_dir, &install_path)?
Rename ==
    /\ pc = "rename"
    /\ \/ /\ rootfs' = [rootfs EXCEPT ![install_dir][install_name] = tmp.ent[extracted]]
          /\ tmp' = [tmp EXCEPT !.ent[extracted] = "none"]
          /\ Go("rename", "listdir")
       \/ /\ rootfs' = rootfs
          /\ tmp' = tmp
          /\ Fail("rename")
    /\ UNCHANGED <<runs, euid, homeSet, cand, cpuinfo, arch, assets, url,
                   install_dir, install_name, data, extracted, fs0, prev>>

\* the entries of root the prune loop removes when it keeps `keep`
superseded(root, keep) ==
    {n \in RootNames : is_superseded(n, root[n], keep)}

\* the loop with `remove_dir_all(p)?`: the first removal that fails ends it, and the
\* entries it has not removed stay
pruned_until_failure(root, keep, seen, stuck) ==
    [n \in RootNames |->
        IF n \in seen /\ n \in superseded(root, keep)
        THEN (IF n \in stuck THEN "dir" ELSE IF stuck # {} THEN root[n] ELSE "none")
        ELSE root[n]]

\* root after the loop has visited the entries `seen`, the removals of `stuck` failing
\* (a removal that fails leaves a directory, with what is left of its content)
pruned(root, keep, seen, stuck) ==
    [n \in RootNames |->
        IF n \in seen /\ n \in superseded(root, keep)
        THEN (IF n \in stuck THEN "dir" ELSE "none")
        ELSE root[n]]

\* main.rs 127-141: the prune loop and the return.  read_dir gives the entries in no
\* particular order; `entry?` ends the run at an entry that cannot be read, with the
\* entries `seen` before it already handled; a failed remove_dir_all is dropped by
\* `let _` and the loop goes on; the trace has one record for each such removal.
Prune ==
    /\ pc = "listdir"
    /\ LET root == rootfs[install_dir]
           names == {n \in RootNames : exists(root[n])}
       IN  \/ /\ Fail("listdir")
              /\ rootfs' = rootfs
           \/ \E seen \in SUBSET names :
              \E stuck \in SUBSET (seen \cap superseded(root, install_name)) :
                 /\ seen # names
                 /\ rootfs' = [rootfs EXCEPT ![install_dir] =
                                  pruned(root, install_name, seen, stuck)]
                 /\ pc' = "exit"
                 /\ exitCode' = <<1>>
                 /\ trace' = trace \o << <<"listdir", "ok">> >> \o
                       Times(<<"prune_remove", "err">>, Cardinality(stuck))
                       \o << <<"entry", "err">> >>
           \/ \E stuck \in SUBSET superseded(root, install_name) :
                 /\ rootfs' = [rootfs EXCEPT ![install_dir] =
                                  pruned(root, install_name, names, stuck)]
                 /\ pc' = "exit"
                 /\ exitCode' = <<0>>
                 /\ trace' = trace \o << <<"listdir", "ok">> >> \o
                       Times(<<"prune_remove", "err">>, Cardinality(stuck))
                       \o << <<"done", "ok">> >>
    /\ UNCHANGED <<runs, euid, homeSet, cand, tmp, cpuinfo, arch, assets, url,
                   install_dir, install_name, data, extracted, fs0, prev>>

\* whether the run that has exited went through the whole install path
Installed ==
    /\ pc = "exit"
    /\ exitCode = <<0>>
    /\ Len(trace) > 0
    /\ trace[Len(trace)] = <<"done", "ok">>

NoReport ==
    [ok |-> FALSE, lines |-> << >>]

\* the process has exited and the program is invoked again
NewRun ==
    /\ pc = "exit"
    /\ runs < MaxRuns
    /\ runs' = runs + 1
    /\ pc' = "start"
    /\ euid' \in Uids
    /\ homeSet' \in BOOLEAN
    /\ prev' = IF Installed
               THEN [installed |-> TRUE, assets |-> assets, arch |-> arch,
                     dir |-> install_dir, name |-> install_name]
               ELSE NoPrev
    /\ tmp' = [tmp EXCEPT !.ent = [n \in TmpNames |-> aged(tmp.ent[n])]]
    /\ fs0' = [cand |-> cand, rootfs |-> rootfs]
    /\ cpuinfo' = NoReport
    /\ arch' = ArchBase
    /\ assets' = << >>
    /\ url' = NoUrl
    /\ install_dir' = 0
    /\ install_name' = ""
    /\ data' = NoData
    /\ extracted' = NoEntry
    /\ exitCode' = << >>
    /\ trace' = << >>
    /\ UNCHANGED <<cand, rootfs>>

NoTmp ==
    [exists |-> FALSE, ent |-> EmptyTmp]

\* the candidate roots before the first run
InitFs ==
    { [cand |-> c, rootfs |-> r] :
        c \in [Cands -> {"absent", "file", "dir"}],
        r \in [Cands -> InitRoots] }

InitFsOk(f) ==
    /\ f.cand[2] # "file"
    /\ \A i \in Cands : f.cand[i] # "dir" => f.rootfs[i] = EmptyRoot
    /\ f.cand[1] # "absent" => f.rootfs[2] = EmptyRoot
    /\ f.cand[2] = "dir" => f.rootfs[1] = EmptyRoot
    /\ (f.cand[1] = "absent" /\ f.cand[2] = "dir") => f.rootfs[2] # EmptyRoot

Init ==
    /\ pc = "start"
    /\ runs = 1
    /\ euid \in Uids
    /\ homeSet \in BOOLEAN
    /\ \E f \in InitFs :
          /\ InitFsOk(f)
          /\ cand = f.cand
          /\ rootfs = f.rootfs
          /\ fs0 = f
    /\ tmp = NoTmp
    /\ cpuinfo = NoReport
    /\ arch = ArchBase
    /\ assets = << >>
    /\ url = NoUrl
    /\ install_dir = 0
    /\ install_name = ""
    /\ data = NoData
    /\ extracted = NoEntry
    /\ exitCode = << >>
    /\ trace = << >>
    /\ prev = NoPrev

Next ==
    \/ CheckRoot
    \/ GetHome
    \/ ResolveRoot
    \/ MkRoot
    \/ Detect
    \/ FetchRelease
    \/ SelectAsset
    \/ CheckInstalled
    \/ Download
    \/ RemoveTmp
    \/ MakeTmp
    \/ Unpack
    \/ Lookup
    \/ Rename
    \/ Prune
    \/ NewRun

Spec ==
    Init /\ [][Next]_vars

(***************************************************************************)
(* detect_arch on its own, over every report built from a vocabulary of    *)
(* CPU flags.                                                              *)
(***************************************************************************)
FlagVocab ==
    <<"fpu", "avx2", "bmi1", "bmi2", "fma", "fma4">>

\* the flags line of /proc/cpuinfo listing the flags of S, in the order of FlagVocab
RECURSIVE FlagsText(_, _)
FlagsText(S, i) ==
    IF i > Len(FlagVocab) THEN ""
    ELSE (IF FlagVocab[i] \in S THEN " " \o FlagVocab[i] ELSE "") \o FlagsText(S, i + 1)

FlagsLine(S) ==
    "flags\t\t:" \o FlagsText(S, 1)

VocabSet ==
    {FlagVocab[i] : i \in 1..Len(FlagVocab)}

AllReports ==
    { [ok |-> TRUE, lines |-> <<"processor\t: 0", FlagsLine(S), "bogomips\t: 4000">>] :
        S \in SUBSET VocabSet }
    \cup { NoReport,
           [ok |-> TRUE, lines |-> << >>],
           [ok |-> TRUE, lines |-> <<"processor\t: 0", "Features\t: fp asimd">>] }

\* every variable of main() before the first stage, the environment aside
Idle ==
    /\ runs = 1
    /\ euid \in Uids \ {RootUid}
    /\ homeSet = TRUE
    /\ cand = [i \in Cands |-> "absent"]
    /\ rootfs = [i \in Cands |-> EmptyRoot]
    /\ fs0 = [cand |-> cand, rootfs |-> rootfs]
    /\ tmp = NoTmp
    /\ install_dir = 0
    /\ install_name = ""
    /\ data = NoData
    /\ extracted = NoEntry
    /\ exitCode = << >>
    /\ trace = << >>
    /\ prev = NoPrev

InitDetect ==
    /\ Idle
    /\ pc = "detect_in"
    /\ cpuinfo \in AllReports
    /\ arch = ArchBase
    /\ assets = << >>
    /\ url = NoUrl

\* a call of detect_arch()
DetectOnly ==
    /\ pc = "detect_in"
    /\ pc' = "detect_out"
    /\ arch' = detect_arch(cpuinfo)
    /\ UNCHANGED <<runs, euid, homeSet, cand, rootfs, tmp, cpuinfo, assets, url,
                   install_dir, install_name, data, extracted, exitCode, trace, fs0, prev>>

NextDetect ==
    DetectOnly

SpecDetect ==
    InitDetect /\ [][NextDetect]_vars

(***************************************************************************)
(* The asset selection on its own, over every feed of at most MaxAssets    *)
(* assets drawn from a pool of urls.                                       *)
(***************************************************************************)
MaxAssets == 2

UrlPool ==
    { U1, U1v3, U2v3, "x86_64.tar.xz", "https://h/proton-cachyos-1-x86_64.tar.xz.sha512" }

AllFeeds ==
    UNION { [1..n -> UrlPool] : n \in 0..MaxAssets }

InitResolve ==
    /\ Idle
    /\ pc = "select_in"
    /\ cpuinfo = NoReport
    /\ arch \in {ArchBase, ArchV3}
    /\ assets \in AllFeeds
    /\ url = NoUrl

\* the find of main.rs 86-88 and, when it matches, the name of main.rs 93
SelectOnly ==
    /\ pc = "select_in"
    /\ pc' = "select_out"
    /\ url' = find_asset(assets, arch)
    /\ install_name' = IF find_asset(assets, arch) = NoUrl THEN ""
                       ELSE derive_install_name(find_asset(assets, arch))
    /\ UNCHANGED <<runs, euid, homeSet, cand, rootfs, tmp, cpuinfo, arch, assets,
                   install_dir, data, extracted, exitCode, trace, fs0, prev>>

NextResolve ==
    SelectOnly

SpecResolve ==
    InitResolve /\ [][NextResolve]_vars

(***************************************************************************)
(* Lines 111-125 of two runs at once.  Both runs have passed the           *)
(* already-installed check of the same root and name and hold the same     *)
(* downloaded archive; they share the one path env::temp_dir()/            *)
(* proton_extract.  Here pc, data, extracted, exitCode and trace hold one  *)
(* value for each run, and an entry of the scratch directory is the set of *)
(* the pieces written into it: <<p, k>> is part k of the archive           *)
(* directory as written by run p (the empty set: no such entry).           *)
(* The steps fail only through the state of the scratch directory and of   *)
(* the target; the failures the environment causes by itself are those of  *)
(* the single run above.                                                   *)
(***************************************************************************)
Procs ==
    {1, 2}

\* the parts an archive directory is written in, in stream order
Parts ==
    {1, 2}

RacePieces ==
    Procs \X Parts

\* the whole archive directory as run p writes it
Own(p) ==
    {p} \X Parts

RaceNoTmp ==
    [exists |-> FALSE, ent |-> [n \in TmpNames |-> {}]]

\* the archives with one top-level entry
RaceArchives ==
    {a \in Archives : Len(a) = 1}

\* the content label of the pieces c for run p
content_label(c, p) ==
    IF c = {} THEN "none"
    ELSE IF c = Own(p) THEN "payload"
    ELSE IF {x[2] : x \in c} # Parts THEN "partial"
    ELSE "mixed"

\* every write of the extraction empties the directory it writes into
written_alone(c, p, k) ==
    {<<p, k>>}

\* the content of a directory holding c after run p has written part k into it
written(c, p, k) ==
    c \cup {<<p, k>>}

RaceRan(p, stage, result) ==
    trace' = [trace EXCEPT ![p] = Append(@, <<stage, result>>)]

RaceFail(p, stage) ==
    /\ pc' = [pc EXCEPT ![p] = "exit"]
    /\ exitCode' = [exitCode EXCEPT ![p] = <<1>>]
    /\ RaceRan(p, stage, "err")

RaceGo(p, stage, next) ==
    /\ pc' = [pc EXCEPT ![p] = next]
    /\ exitCode' = exitCode
    /\ RaceRan(p, stage, "ok")

\* main.rs 112: let _ = fs::remove_dir_all(&tmp_dir); a removal that fails has
\* removed any part of the content
RaceRemoveTmp(p) ==
    /\ pc[p] = "rmtmp"
    /\ pc' = [pc EXCEPT ![p] = "mktmp"]
    /\ exitCode' = exitCode
    /\ \/ /\ ~tmp.exists
          /\ tmp' = tmp
          /\ RaceRan(p, "rmtmp", "absent")
       \/ /\ tmp.exists
          /\ tmp' = RaceNoTmp
          /\ RaceRan(p, "rmtmp", "ok")
       \/ /\ tmp.exists
          /\ \E e \in [TmpNames -> SUBSET RacePieces] :
                /\ \A n \in TmpNames : e[n] \subseteq tmp.ent[n]
                /\ tmp' = [exists |-> TRUE, ent |-> e]
          /\ RaceRan(p, "rmtmp", "err")
    /\ UNCHANGED <<runs, euid, homeSet, cand, rootfs, cpuinfo, arch, assets, url,
                   install_dir, install_name, data, extracted, fs0, prev>>

\* main.rs 113: fs::create_dir_all(&tmp_dir)?
RaceMakeTmp(p) ==
    /\ pc[p] = "mktmp"
    /\ tmp' = [tmp EXCEPT !.exists = TRUE]
    /\ RaceGo(p, "mktmp", "unpack")
    /\ UNCHANGED <<runs, euid, homeSet, cand, rootfs, cpuinfo, arch, assets, url,
                   install_dir, install_name, data, extracted, fs0, prev>>

\* main.rs 114-116: archive.unpack(&tmp_dir)?, the first part of the directory.
\* unpack creates the destination and the parents of what it writes when missing.
RaceUnpackBegin(p) ==
    /\ pc[p] = "unpack"
    /\ tmp' = [exists |-> TRUE,
               ent |-> [tmp.ent EXCEPT ![data[p][1].name] = written(@, p, 1)]]
    /\ pc' = [pc EXCEPT ![p] = "unpacking"]
    /\ UNCHANGED <<runs, euid, homeSet, cand, rootfs, cpuinfo, arch, assets, url,
                   install_dir, install_name, data, extracted, exitCode, trace,
                   fs0, prev>>

\* main.rs 114-116: the rest of the directory, and the return of unpack
RaceUnpackEnd(p) ==
    /\ pc[p] = "unpacking"
    /\ tmp' = [exists |-> TRUE,
               ent |-> [tmp.ent EXCEPT ![data[p][1].name] = written(@, p, 2)]]
    /\ RaceGo(p, "unpack", "lookup")
    /\ UNCHANGED <<runs, euid, homeSet, cand, rootfs, cpuinfo, arch, assets, url,
                   install_dir, install_name, data, extracted, fs0, prev>>

\* the entries of the scratch directory the lookup closure of run p accepts
race_payload_dirs(t, p) ==
    {n \in TmpNames : is_payload_dir(n, content_label(t.ent[n], p))}

\* main.rs 118-123: read_dir fails on a directory that is gone
RaceLookup(p) ==
    /\ pc[p] = "lookup"
    /\ \/ /\ ~tmp.exists
          /\ extracted' = extracted
          /\ RaceFail(p, "readtmp")
       \/ /\ tmp.exists
          /\ \E n \in race_payload_dirs(tmp, p) : extracted' = [extracted EXCEPT ![p] = n]
          /\ RaceGo(p, "lookup", "rename")
       \/ /\ tmp.exists
          /\ race_payload_dirs(tmp, p) = {}
          /\ extracted' = extracted
          /\ RaceFail(p, "lookup")
    /\ UNCHANGED <<runs, euid, homeSet, cand, rootfs, tmp, cpuinfo, arch, assets, url,
                   install_dir, install_name, data, fs0, prev>>

\* main.rs 125: fs::rename fails when the source is gone and when the target is a
\* directory that is not empty
RaceRename(p) ==
    /\ pc[p] = "rename"
    /\ IF tmp.ent[extracted[p]] = {} \/ exists(rootfs[install_dir][install_name])
       THEN /\ rootfs' = rootfs
            /\ tmp' = tmp
            /\ RaceFail(p, "rename")
       ELSE /\ rootfs' = [rootfs EXCEPT ![install_dir][install_name] =
                             content_label(tmp.ent[extracted[p]], p)]
            /\ tmp' = [tmp EXCEPT !.ent[extracted[p]] = {}]
            /\ RaceGo(p, "rename", "listdir")
    /\ UNCHANGED <<runs, euid, homeSet, cand, cpuinfo, arch, assets, url,
                   install_dir, install_name, data, extracted, fs0, prev>>

InitRace ==
    /\ runs = 1
    /\ euid \in Uids \ {RootUid}
    /\ homeSet = TRUE
    /\ cand = [i \in Cands |-> IF i = 1 THEN "dir" ELSE "absent"]
    /\ rootfs = [i \in Cands |-> EmptyRoot]
    /\ fs0 = [cand |-> cand, rootfs |-> rootfs]
    /\ cpuinfo = NoReport
    /\ arch = ArchBase
    /\ assets = <<U1, U1v3>>
    /\ url = U1
    /\ install_dir = 1
    /\ install_name = derive_install_name(U1)
    /\ prev = NoPrev
    /\ tmp = RaceNoTmp
    /\ pc = [p \in Procs |-> "rmtmp"]
    /\ \E a \in RaceArchives : data = [p \in Procs |-> a]
    /\ extracted = [p \in Procs |-> NoEntry]
    /\ exitCode = [p \in Procs |-> << >>]
    /\ trace = [p \in Procs |-> << >>]

NextRace ==
    \E p \in Procs :
        \/ RaceRemoveTmp(p)
        \/ RaceMakeTmp(p)
        \/ RaceUnpackBegin(p)
        \/ RaceUnpackEnd(p)
        \/ RaceLookup(p)
        \/ RaceRename(p)

SpecRace ==
    InitRace /\ [][NextRace]_vars

(***************************************************************************)
(* Properties.                                                             *)
(***************************************************************************)
Has(stage, result) ==
    \E i \in 1..Len(trace) : trace[i] = <<stage, result>>

StageRuns(stage) ==
    {i \in 1..Len(trace) : trace[i][1] = stage}

LastStage ==
    IF trace = << >> THEN <<"", "">> ELSE trace[Len(trace)]

\* the run has ended on the already-installed path
Skipped ==
    pc = "exit" /\ LastStage = <<"check", "skip">>

\* the name starts with the package prefix
PkgPrefixed(n) ==
    Len(n) >= 15 /\ SubSeq(n, 1, 15) = "proton-cachyos-"

SetMin(S) ==
    CHOOSE m \in S : \A n \in S : m <= n

\* C1: at every point of every run, a directory at install_root/install_name is never
\* a partially extracted one: it is absent, was there before, or is a complete payload.
C1_NoPartialAtTarget ==
    install_name # "" /\ install_dir # 0 =>
        rootfs[install_dir][install_name] \notin {"partial", "oldpartial"}

\* C2: a run of the superuser has exited with a non-zero status as soon as it has
\* taken a step, and no stage (environment, filesystem or network) has run in it.
C2_RootRefusedFirst ==
    euid = RootUid /\ pc # "start" =>
        /\ pc = "exit"
        /\ exitCode = <<1>>
        /\ trace = << >>
        /\ cand = fs0.cand
        /\ rootfs = fs0.rootfs
        /\ install_dir = 0
        /\ assets = << >>
        /\ data = NoData

W2_RootRefused ==
    euid = RootUid /\ ~homeSet /\ pc = "exit" /\ runs = 2 /\ tmp.exists

\* C3: a run takes the already-installed path exactly when install_root/install_name
\* existed when it started; such a run fetches the metadata once, downloads no asset,
\* runs no scratch, move or prune stage, leaves the roots as they were and exits 0.
C3_SkipIsNoOp ==
    /\ install_name # "" =>
          (exists(fs0.rootfs[install_dir][install_name]) <=> Skipped)
    /\ Skipped =>
          /\ exitCode = <<0>>
          /\ Cardinality(StageRuns("fetch")) = 1
          /\ \A st \in {"download", "rmtmp", "mktmp", "unpack", "readtmp", "lookup",
                        "rename", "listdir", "entry", "prune_remove"} :
                StageRuns(st) = {}
          /\ cand = fs0.cand
          /\ rootfs = fs0.rootfs

W3_Skipped ==
    /\ Skipped
    /\ \E n \in RootNames \ {install_name} :
          PkgPrefixed(n) /\ is_dir(rootfs[install_dir][n])

\* C4: after an install that ended with status 0 and in which every removal succeeded,
\* the root holds the installed name, holds no other directory with the package
\* prefix, and every other entry that is not such a directory is as it was before.
C4_PruneFrame ==
    (pc = "exit" /\ LastStage = <<"done", "ok">> /\ ~Has("prune_remove", "err")) =>
        /\ is_dir(rootfs[install_dir][install_name])
        /\ \A n \in RootNames \ {install_name} :
              ~(PkgPrefixed(n) /\ rootfs[install_dir][n] \in DirLabels)
        /\ \A n \in RootNames \ {install_name} :
              (~PkgPrefixed(n) \/ fs0.rootfs[install_dir][n] \notin DirLabels) =>
                  rootfs[install_dir][n] = fs0.rootfs[install_dir][n]
        /\ \A j \in Cands \ {install_dir} : rootfs[j] = fs0.rootfs[j]

W4_PrunedAndKept ==
    /\ pc = "exit" /\ LastStage = <<"done", "ok">> /\ ~Has("prune_remove", "err")
    /\ \E n \in RootNames \ {install_name} :
          /\ PkgPrefixed(n)
          /\ fs0.rootfs[install_dir][n] \in DirLabels
          /\ rootfs[install_dir][n] = "none"
    /\ rootfs[install_dir]["proton-ge"] = "dir"

\* C5: the target is absent when a run enters the install path and present when that
\* run ends with status 0; the run that follows an install with the same feed and
\* the same CPU report resolves the same root and name and takes the skip path.
C5_InstalledThenSkipped ==
    /\ Has("check", "ok") => ~exists(fs0.rootfs[install_dir][install_name])
    /\ (pc = "exit" /\ LastStage = <<"done", "ok">>) =>
          exists(rootfs[install_dir][install_name])
    /\ (prev.installed /\ install_name # "" /\ assets = prev.assets /\ arch = prev.arch) =>
          /\ install_dir = prev.dir
          /\ install_name = prev.name
          /\ Skipped

W5_SecondRunSkips ==
    prev.installed /\ assets = prev.assets /\ arch = prev.arch /\ Skipped

\* the pieces of s between the separators sep
RECURSIVE split(_, _)
split(s, sep) ==
    IF SepPositions(s, sep) = {}
    THEN <<s>>
    ELSE LET p == SetMax(SepPositions(s, sep))
         IN  Append(split(SubSeq(s, 1, p - 1), sep), SubSeq(s, p + 1, Len(s)))

\* the feature f is one of the flags of a flags line of the report
ReportsFeature(report, f) ==
    /\ report.ok
    /\ \E i \in 1..Len(report.lines) :
          /\ starts_with(report.lines[i], "flags")
          /\ \E k \in 1..Len(split(report.lines[i], " ")) :
                split(report.lines[i], " ")[k] = f

\* C6: detect_arch gives v3 exactly for the reports that list all of avx2, bmi1, bmi2
\* and fma, and baseline for every other report, an unreadable one included.
C6_DetectByFeatures ==
    pc = "detect_out" =>
        (arch = ArchV3 <=>
            \A f \in {"avx2", "bmi1", "bmi2", "fma"} : ReportsFeature(cpuinfo, f))
        /\ arch \in {ArchV3, ArchBase}

\* the url is some text followed by the tag and ".tar.xz"
EndsInTag(u, tag) ==
    \E k \in 0..Len(u) : SubSeq(u, k + 1, Len(u)) = tag \o ".tar.xz"

Matching ==
    {i \in 1..Len(assets) : EndsInTag(assets[i], arch)}

\* C7: the selection gives the first asset in feed order whose url ends in
\* "<tag>.tar.xz" and fails exactly when there is none; the baseline tag finds nothing
\* among v3 assets, and with both assets of a release each tag selects its own.
C7_FirstMatchingAsset ==
    pc = "select_out" =>
        /\ (Matching = {} <=> url = NoUrl)
        /\ Matching # {} => url = assets[SetMin(Matching)]
        /\ (arch = ArchBase /\ \A i \in 1..Len(assets) : assets[i] \in {U1v3, U2v3}) =>
              url = NoUrl
        /\ assets = <<U1, U1v3>> => url = (IF arch = ArchBase THEN U1 ELSE U1v3)
        /\ assets = <<U1v3, U1>> => url = (IF arch = ArchBase THEN U1 ELSE U1v3)

W7_FirstOfTwo ==
    /\ pc = "select_out"
    /\ Cardinality(Matching) = 2
    /\ assets[1] # assets[2]
    /\ url = assets[1]

\* the candidate that exists first in the fixed order, the first one if none exists
FirstExisting(cs) ==
    IF cs[1] # "absent" THEN 1
    ELSE IF cs[2] # "absent" THEN 2
    ELSE 1

\* C8: the install root is the first candidate that existed when the run started, or
\* the first candidate when none did; once its creation has succeeded it is a
\* directory, no other candidate has changed, and if it existed nothing has changed.
C8_ResolveInstallRoot ==
    /\ install_dir # 0 =>
          /\ install_dir = FirstExisting(fs0.cand)
          /\ \A j \in Cands \ {install_dir} : cand[j] = fs0.cand[j]
          /\ fs0.cand[install_dir] # "absent" => cand = fs0.cand
    /\ install_dir = 0 => cand = fs0.cand
    /\ pc = "detect" =>
          /\ cand[install_dir] = "dir"
          /\ rootfs = fs0.rootfs

W8_SecondCandidate ==
    /\ pc = "detect"
    /\ fs0.cand[1] = "absent"
    /\ fs0.cand[2] = "dir"
    /\ install_dir = 2
    /\ cand = fs0.cand

\* C9: a stage that fails is the last stage of its run and the run exits with a
\* non-zero status, the one exception being a removal of the prune loop; a run exits
\* with status 0 only after a whole install or on the already-installed path.
C9_OnlyPruneFailuresIgnored ==
    /\ \A i \in 1..Len(trace) :
          trace[i][2] \in {"err", "unreadable"} =>
              \/ trace[i][1] = "prune_remove"
              \/ (i = Len(trace) /\ pc = "exit" /\ exitCode = <<1>>)
    /\ (pc = "exit" /\ exitCode = <<0>>) =>
          (LastStage = <<"done", "ok">> \/ LastStage = <<"check", "skip">>)

\* the top-level directories of the scratch area whose name has the expected prefix
Candidates ==
    {n \in TmpNames :
        tmp.ent[n] \in DirLabels /\ Len(n) >= 7 /\ SubSeq(n, 1, 7) = "proton-"}

\* C10 as stated: the run goes on to the move only with exactly one candidate.
C10_ExactlyOneCandidate ==
    pc = "rename" => Cardinality(Candidates) = 1

\* C10 as amended: with no candidate the lookup fails with the layout error; with one
\* or more it goes on to the move with one of them (the first the listing gives),
\* unless no candidate could be read.
C10_AtLeastOneCandidate ==
    /\ pc = "rename" => extracted \in Candidates
    /\ (pc = "exit" /\ LastStage = <<"lookup", "err">>) => Candidates = {}
    /\ (pc = "exit" /\ LastStage = <<"lookup", "unreadable">>) => Candidates # {}
    /\ (Has("unpack", "ok") /\ Candidates = {} /\ ~Has("rename", "ok")) =>
          pc \in {"lookup", "exit"}

W10_TwoCandidates ==
    pc = "rename" /\ Cardinality(Candidates) = 2

\* C11: when the extraction starts the scratch directory exists and holds nothing,
\* whatever the removal before it did; and the directory a run has moved to the
\* target is a whole directory of its own archive, unpacked into an empty place.
C11_ExtractionStartsEmpty ==
    /\ pc = "unpack" => (tmp.exists /\ tmp.ent = EmptyTmp)
    /\ Has("rename", "ok") => rootfs[install_dir][install_name] = "payload"

\* C12: when a run has exited with a non-zero status, the candidate roots and their
\* entries are what they were when the run started.
C12_FailedRunChangesNothing ==
    (pc = "exit" /\ exitCode = <<1>>) =>
        /\ cand = fs0.cand
        /\ rootfs = fs0.rootfs

\* C13: the install root changes only in a run whose move has succeeded, and from then
\* on the target exists as the directory that run moved (it was absent before); a run
\* that ends without a successful move, the already-installed path aside, ends with a
\* non-zero status, with every entry of the root as before and the target absent.
C13_PruneOnlyAfterMove ==
    /\ rootfs # fs0.rootfs => Has("rename", "ok")
    /\ Has("rename", "ok") =>
          /\ ~exists(fs0.rootfs[install_dir][install_name])
          /\ is_dir(rootfs[install_dir][install_name])
    /\ (pc = "exit" /\ ~Has("rename", "ok") /\ ~Skipped) =>
          /\ exitCode = <<1>>
          /\ rootfs = fs0.rootfs
          /\ install_name # "" => ~exists(rootfs[install_dir][install_name])

W13_MoveFailedVersionsKept ==
    /\ pc = "exit"
    /\ LastStage = <<"rename", "err">>
    /\ \E n \in RootNames : PkgPrefixed(n) /\ is_dir(rootfs[install_dir][n])

\* the removals of the prune loop that failed in this run
PruneErrs ==
    {i \in 1..Len(trace) : trace[i] = <<"prune_remove", "err">>}

\* the directories with the package prefix, the target aside, the root holds
Stale(root) ==
    {n \in RootNames \ {install_name} : PkgPrefixed(n) /\ is_dir(root[n])}

\* C14: a run in which removals of the prune loop failed, and no entry of the listing
\* was unreadable, ends with status 0 after the whole loop: the target is still the
\* directory that was moved there, and every other directory with the package prefix
\* has been removed except one for each removal that failed.
C14_RemovalFailureNotPropagated ==
    /\ (pc = "exit" /\ PruneErrs # {} /\ ~Has("entry", "err")) =>
          /\ exitCode = <<0>>
          /\ LastStage = <<"done", "ok">>
          /\ is_dir(rootfs[install_dir][install_name])
          /\ Cardinality(Stale(rootfs[install_dir])) = Cardinality(PruneErrs)
          /\ Stale(rootfs[install_dir]) \subseteq Stale(fs0.rootfs[install_dir])
    /\ PruneErrs # {} =>
          /\ pc = "exit"
          /\ is_dir(rootfs[install_dir][install_name])

W14_OneStuckOneRemoved ==
    /\ pc = "exit"
    /\ exitCode = <<0>>
    /\ Cardinality(PruneErrs) = 1
    /\ \E n \in Stale(fs0.rootfs[install_dir]) : rootfs[install_dir][n] = "none"

\* the position of the first record of the stage with the result, 0 if there is none
FirstAt(stage, result) ==
    IF Has(stage, result)
    THEN SetMin({i \in 1..Len(trace) : trace[i] = <<stage, result>>})
    ELSE 0

\* at most one asset download in the run, after the metadata fetch succeeded, an asset
\* matched and the target was found not installed, in this order; and a fetch or a
\* download that fails is the last stage of the run
DownloadAfterDecision ==
    /\ Cardinality(StageRuns("download")) <= 1
    /\ StageRuns("download") # {} =>
          /\ 0 < FirstAt("fetch", "ok")
          /\ FirstAt("fetch", "ok") < FirstAt("parse", "ok")
          /\ FirstAt("parse", "ok") < FirstAt("select", "ok")
          /\ FirstAt("select", "ok") < FirstAt("check", "ok")
          /\ \A i \in StageRuns("download") : FirstAt("check", "ok") < i
          /\ url # NoUrl
          /\ ~exists(fs0.rootfs[install_dir][install_name])
    /\ \A i \in StageRuns("fetch") \cup StageRuns("download") :
          trace[i][2] = "err" => (i = Len(trace) /\ pc = "exit" /\ exitCode = <<1>>)

\* C15 as stated: every run has issued exactly one metadata fetch when it ends, and
\* at most one asset download, ordered after the fetch, the match and the check.
C15_ExactlyOneFetchPerRun ==
    /\ pc = "exit" => Cardinality(StageRuns("fetch")) = 1
    /\ DownloadAfterDecision

\* C15 as amended: a run issues at most one metadata fetch: exactly one once it has
\* got past the privilege gate, HOME and the creation of the install root, none when
\* it ends before; the download is as stated.
C15_OneFetchOnceReached ==
    /\ Cardinality(StageRuns("fetch")) <= 1
    /\ (pc = "exit" /\ Has("mkroot", "ok")) => Cardinality(StageRuns("fetch")) = 1
    /\ (pc = "exit" /\ ~Has("mkroot", "ok")) =>
          /\ StageRuns("fetch") = {}
          /\ exitCode = <<1>>
    /\ DownloadAfterDecision

W15_FailedDownloadNotRetried ==
    /\ pc = "exit"
    /\ LastStage = <<"download", "err">>
    /\ Cardinality(StageRuns("fetch")) = 1
    /\ Cardinality(StageRuns("download")) = 1

\* no other run has entered the scratch stage
Alone(p) ==
    \A q \in Procs \ {p} : pc[q] = "rmtmp"

RaceLast(p) ==
    IF trace[p] = << >> THEN <<"", "">> ELSE trace[p][Len(trace[p])]

\* the archive of run p has a top-level directory with the expected prefix
HasPayloadDir(p) ==
    \E i \in 1..Len(data[p]) :
        data[p][i].kind = "dir" /\ starts_with(data[p][i].name, "proton-")

\* C16: a run that goes through the scratch stages while the other has not entered
\* them finds after its extraction exactly its own whole archive directory in the
\* scratch directory, fails the lookup only when its archive has no payload directory,
\* never fails the move, and moves its own whole directory to the target.
C16_SingleRunUndisturbed ==
    \A p \in Procs : Alone(p) =>
        /\ pc[p] \in {"lookup", "rename"} =>
              /\ tmp.exists
              /\ tmp.ent = [n \in TmpNames |->
                               IF n = data[p][1].name THEN Own(p) ELSE {}]
        /\ pc[p] = "rename" => tmp.ent[extracted[p]] = Own(p)
        /\ pc[p] = "listdir" => rootfs[install_dir][install_name] = "payload"
        /\ pc[p] = "exit" =>
              /\ RaceLast(p) = <<"lookup", "err">>
              /\ ~HasPayloadDir(p)

\* the two runs interleaved, every removal of the scratch directory succeeding: one
\* run has moved an incomplete directory to the target, the other has failed its
\* lookup or its move
W16_IncompleteMovedOtherFails ==
    \E p \in Procs : \E q \in Procs \ {p} :
        /\ pc[p] = "listdir"
        /\ rootfs[install_dir][install_name] = "partial"
        /\ pc[q] = "exit"
        /\ RaceLast(q) \in {<<"readtmp", "err">>, <<"lookup", "err">>, <<"rename", "err">>}
        /\ \A r \in Procs : \A i \in 1..Len(trace[r]) : trace[r][i] # <<"rmtmp", "err">>

=============================================================================
